---------------------------- MODULE Spec2Model ----------------------------
(***************************************************************************)
(* HDDAPI (jaaysus/AIO-Technician, Backend/HDDAPI).                        *)
(*                                                                         *)
(* Two server programs of the repository are modelled:                     *)
(*   "poller" : src/unnamed/part_000, lines 197-364.  pollDrives runs on   *)
(*              start-up and on a 5 s interval and assigns its result to   *)
(*              drivesCache; GET /api/drives answers from drivesCache.     *)
(*   "stream" : src/Backend/HDDAPI/index.js.  GET /api/drives runs         *)
(*              getDriveSummariesOnly, GET /api/drives/stream runs         *)
(*              getAllDriveSummaries at once and on a per-stream interval, *)
(*              GET /api/drives/volumes runs getDiskSpace.                 *)
(* Both run the same sweep: scanDevices, then readSmartForDevice and       *)
(* summarizeSmart per device, then a sort by Device.  A sweep is suspended *)
(* only while it awaits runSmartctl (getAllDriveSummaries: the scan        *)
(* together with wmic); every step of the model runs one callback of the   *)
(* event loop to its next await.                                           *)
(* A response and a stream event carry the drive list as JSON.stringify    *)
(* writes it and the client parses it (data).                              *)
(*                                                                         *)
(* SpecInterval runs the stream program over the values of the `interval`  *)
(* query parameter; SpecReader follows one readSmartForDevice call with    *)
(* every runSmartctl invocation it makes; SpecNormalizer applies           *)
(* summarizeSmart of either program to a set of smartctl payloads.         *)
(***************************************************************************)
EXTENDS Integers, Sequences, FiniteSets, TLC

\* Bounds of the model.
MaxSweeps == 2      \* sweeps (pollDrives / getAllDriveSummaries calls) started in one run
MaxStreams == 2     \* /api/drives/stream connections accepted in one run
MaxVolumeRequests == 1  \* /api/drives/volumes requests awaiting wmic at one time

Sweeps == 1..MaxSweeps
Streams == 1..MaxStreams

VARIABLES
    server,         \* which program runs: "poller" or "stream"
    alive,          \* the node process has not been terminated
    sweep,          \* sweep[s]: the locals of the s-th started sweep and where it is suspended
    drivesCache,    \* part_000:209, the list GET /api/drives of the poller answers with
    response,       \* the last body handed to sendJson
    volumeRequests, \* the GET /api/drives/volumes handlers suspended in `await getDiskSpace()`
    attached,       \* the device lists `smartctl --scan -j` can report during this run
    stream,         \* stream[t]: closed flag, interval timer and output of a stream
    query,          \* the interval parameter the stream requests of this run carry
    payload,        \* the payload summarizeSmart is called with
    record,         \* what that call gave: a record, or the error it raised
    invocations     \* the runSmartctl calls of the reader call that is followed

vars ==
    <<server, alive, sweep, drivesCache, response, volumeRequests, attached, stream, query,
      payload, record, invocations>>

---------------------------------------------------------------------------
\* Device names and their order under String.prototype.localeCompare.

NoName == ""
Collation == <<"/dev/sda", "/dev/sdb", "/dev/sdc">>
DeviceNames == {Collation[n] : n \in 1..Len(Collation)}

Rank(name) == CHOOSE n \in 1..Len(Collation) : Collation[n] = name

\* a.localeCompare(b): negative, zero or positive.
localeCompare(a, b) == Rank(a) - Rank(b)

\* What `smartctl --scan -j` can report as parsed.devices: the entries carry a
\* name, or none (d?.name is then falsy and the entry is skipped).
ScanOutputs ==
    { <<>>,
      <<[name |-> "/dev/sdb"], [name |-> "/dev/sda"]>>,
      <<[name |-> "/dev/sda"], [name |-> NoName], [name |-> "/dev/sdc"]>>,
      <<[name |-> "/dev/sdc"], [name |-> "/dev/sdc"]>> }

---------------------------------------------------------------------------
\* Payloads of `smartctl -a -j`, reduced to the fields the sweep reads.
\* "" stands for a string field that is missing or null (for serial_number
\* and device.type also one that is empty, which the code treats alike; an
\* empty model_name is outside the domain); smart_status and table
\* (ata_smart_attributes.table) are "absent" when the key is missing.

\* A JSON value the code converts with Number(...) or parseInt(...), or tests
\* for truth: the key is missing (undefined), or it holds null, a number or a
\* string.  A value carries what the code can read from it: t, its kind;
\* n, the number Number(...) makes of it; i, the first integer
\* String(v).match(/-?\d+/) finds in its text.  Numbers are integers, or
\* Infinity and -Infinity (what JSON.parse makes of 1e999 and -1e999); numbers
\* and numerals with a fraction are outside the domain.  The strings are: the
\* empty string ""; a string of white space only (" "); a numeral, which is a
\* decimal integer ("35": n and i are the same) or is written with an
\* exponent or in hexadecimal, where the two differ ("3.4e+1": n = 34, i = 3;
\* "1e3": n = 1000, i = 1; "0x23": n = 35, i = 0); a text that is not a
\* numeral but has digits in it ("35 (Min/Max 20/45)": i = 35); the texts
\* "Infinity", "+Infinity" (n = 1) and "-Infinity" (n = -1), which have no
\* digit and convert to an infinite number; a numeral beyond the range of a
\* double, which converts to an infinite number too and has either a short
\* first integer ("1e999": i = 1) or one that parseInt reads as Infinity (a
\* string of 400 digits); and a text without any digit that converts to NaN.
\* NaN is what arithmetic on such a value can give.
Absent == [t |-> "absent", n |-> 0, i |-> 0]
Null == [t |-> "null", n |-> 0, i |-> 0]
Empty == [t |-> "empty", n |-> 0, i |-> 0]
Blank == [t |-> "blank", n |-> 0, i |-> 0]
Text == [t |-> "text", n |-> 0, i |-> 0]
Str(i) == [t |-> "string", n |-> 0, i |-> i]
NumeralAs(n, i) == [t |-> "numeral", n |-> n, i |-> i]
Numeral(n) == NumeralAs(n, n)
InfinityText(sign) == [t |-> "InfinityText", n |-> sign, i |-> 0]
OverflowNumeral(sign, i) == [t |-> "overflow", n |-> sign, i |-> i]
HugeNumeral(sign) == [t |-> "huge", n |-> sign, i |-> 0]
Num(n) == [t |-> "number", n |-> n, i |-> n]
Infinity(sign) == [t |-> "Infinity", n |-> sign, i |-> 0]
NaN == [t |-> "NaN", n |-> 0, i |-> 0]

\* Number(v): a number is itself, a numeral its value; null, "" and a string
\* of white space are 0; "Infinity", "+Infinity" and "-Infinity" are the
\* infinite number of their sign, and so is a numeral beyond the range of a
\* double; undefined and every other string are NaN.
ToNumber(v) ==
    CASE v.t \in {"number", "numeral"} -> Num(v.n)
      [] v.t \in {"null", "empty", "blank"} -> Num(0)
      [] v.t \in {"Infinity", "InfinityText", "overflow", "huge"} -> Infinity(v.n)
      [] OTHER -> NaN

\* kelvin - 273 on a number that need not be finite: Infinity - 273 is
\* Infinity, NaN - 273 is NaN.
MinusKelvin(k) ==
    IF k.t = "number" THEN Num(k.n - 273) ELSE k

\* The truth value of v in `v ? ...`, `v || ...` and `v && ...`: undefined,
\* null, "", 0 and NaN are falsy, every other value is truthy.
Truthy(v) == v.t \notin {"absent", "null", "empty", "NaN"} /\ v # Num(0)

\* v == null, and the left side of `??` falling through: undefined or null.
Nullish(v) == v.t \in {"absent", "null"}

\* v is numeric: a finite number, or a string that is a numeral.
Numeric(v) == v.t \in {"number", "numeral"}

\* Number.isFinite(Number(v))
IsFiniteNumber(v) == ToNumber(v).t = "number"

\* toNumberSafe(value, fallback = 0)
toNumberSafe(v) == IF IsFiniteNumber(v) THEN ToNumber(v).n ELSE 0

\* nvme_smart_health_information_log, with the fields the code reads;
\* temperature_sensors stands for its first element.  A missing log reads as
\* the log with no field (`|| {}`).
NoLog ==
    [data_units_read |-> Absent, data_units_written |-> Absent,
     host_reads |-> Absent, host_writes |-> Absent, controller_busy_time |-> Absent,
     critical_warning |-> Absent, available_spare |-> Absent,
     available_spare_threshold |-> Absent, percentage_used |-> Absent,
     warning_composite_temperature_time |-> Absent,
     critical_composite_temperature_time |-> Absent,
     composite_temperature |-> Absent, temperature_sensors |-> Absent]

\* The top-level counters, all missing.
NoCounters ==
    [power_cycle_count |-> Absent, power_on_hours |-> Absent, unsafe_shutdowns |-> Absent,
     media_and_data_integrity_errors |-> Absent,
     number_of_error_information_log_entries |-> Absent]

\* A row of ata_smart_attributes.table: id, name, value, raw.value, raw.string.
Attr(id, name, value, rawValue, rawString) ==
    [id |-> id, name |-> name, value |-> value, raw_value |-> rawValue,
     raw_string |-> rawString]

\* attrs holds the rows when table is "list"; temperature is
\* temperature.current; type is device.type.
EmptyObject ==
    [model_name |-> "", model_family |-> "", serial_number |-> "", type |-> "",
     smart_status |-> "absent", table |-> "absent", attrs |-> <<>>,
     temperature |-> Absent, log |-> NoLog, counters |-> NoCounters]

StatusOnly == [EmptyObject EXCEPT !.smart_status = "passed"]

\* The payload each device of the bench answers with when an access mode works:
\* a SATA disk, an NVMe disk that names its model family only, and a bridge
\* whose attribute table is not a list.
Telemetry(name) ==
    CASE name = "/dev/sda" ->
           [EmptyObject EXCEPT
               !.model_name = "WDC", !.serial_number = "WD-1", !.type = "sat",
               !.smart_status = "passed", !.table = "list",
               !.attrs = <<Attr(194, "Temperature_Celsius", Num(65), Num(35), Str(35)),
                           Attr(241, "Total_LBAs_Written", Num(100), Num(2097152), Absent)>>,
               !.counters = [NoCounters EXCEPT !.power_cycle_count = Num(7),
                                               !.power_on_hours = Num(1200)]]
      [] name = "/dev/sdb" ->
           [EmptyObject EXCEPT
               !.model_family = "SSD", !.type = "nvme", !.smart_status = "failed",
               !.log = [NoLog EXCEPT !.data_units_written = Num(1000000),
                                     !.percentage_used = Num(10),
                                     !.available_spare = Num(100),
                                     !.composite_temperature = Num(310)]]
      [] OTHER ->
           [EmptyObject EXCEPT
               !.serial_number = "USB-3", !.type = "sat", !.table = "notlist"]

\* runSmartctl settles either way: rejected (execFile reported an error), or
\* resolved with stdout.  stdout is empty, not JSON, or JSON text of a payload.
Rejected == [rejected |-> TRUE, kind |-> "none", json |-> EmptyObject]
Stdout(kind, json) == [rejected |-> FALSE, kind |-> kind, json |-> json]

ProbeOutcomes(name) ==
    { Rejected,
      Stdout("empty", EmptyObject),
      Stdout("garbage", EmptyObject),
      Stdout("json", StatusOnly),
      Stdout("json", Telemetry(name)) }

\* JSON.parse(stdout || "{}"): raises on text that is not JSON.
JSONparseRaises(out) == out.kind = "garbage"
JSONparse(out) == IF out.kind = "json" THEN out.json ELSE EmptyObject

\* readSmartForDevice's validity predicate on a parsed payload.
ValidPayload(parsed) ==
    \/ parsed.model_name # ""
    \/ parsed.serial_number # ""
    \/ parsed.type # ""

\* Mutant of PassesFilter: nothing is filtered out.
PassesFilterEverything(j) == TRUE

\* The aggregator's own filter: the negation of the `continue` condition.
PassesFilter(j) ==
    \/ j.model_name # ""
    \/ j.serial_number # ""
    \/ j.smart_status # "absent"
    \/ j.type # ""

\* Mutant of argSets: the SCSI access mode is tried first.
argSetsScsiFirst == <<"scsi", "plain", "sat", "sat,12">>

\* The access modes readSmartForDevice tries, in order.
argSets == <<"plain", "sat", "sat,12", "scsi">>

---------------------------------------------------------------------------
\* summarizeSmart.  It raises a TypeError (attrs.find is not a function) when
\* it reaches `attrs.find` with an attribute table that is not a list, and
\* otherwise returns a record for the device.  part_000 reaches attrs.find
\* for non-NVMe payloads only; index.js also reaches it for an NVMe payload,
\* in extractTemperatureC, unless a temperature was found before.

\* The regular expressions /Written/i and /Wear|Life|Percent/i, on the
\* attribute names that occur in the payloads.
WrittenNames == {"Total_LBAs_Written"}
WearNames ==
    {"Wear_Leveling_Count", "Percent_Lifetime_Remain", "SSD_Life_Left",
     "Media_Wearout_Indicator"}

\* attrs.find(test), given the indices of the rows that pass the test: the
\* index of the first of them, 0 for undefined.
FindFirst(hits) ==
    IF hits = {} THEN 0 ELSE CHOOSE n \in hits : \A m \in hits : n <= m

IsLbasAttr(a) == a.id \in {241, 242} /\ a.name \in WrittenNames
IsLifeAttr(a) == a.id \in {231, 202, 177} \/ a.name \in WearNames
IsTemp194(a) == a.id = 194
IsTemp190(a) == a.id = 190
IsTempAttr(a) == a.id \in {194, 190}

\* parseInt(String(c).match(/-?\d+/)?.[0] ?? "", 10)
FirstInteger(c) ==
    CASE c.t \in {"number", "numeral", "string", "overflow"} -> Num(c.i)
      [] c.t = "huge" -> Infinity(c.n)
      [] OTHER -> NaN

\* The first of the candidates that is not null and has an integer in it.
RECURSIVE FirstParsed(_)
FirstParsed(candidates) ==
    IF candidates = <<>> THEN Absent
    ELSE IF ~Nullish(candidates[1]) /\ IsFiniteNumber(FirstInteger(candidates[1]))
            THEN FirstInteger(candidates[1])
            ELSE FirstParsed(Tail(candidates))

\* extractTemperatureC of index.js has found a temperature before the table.
TemperatureBeforeTable(json) ==
    \/ IsFiniteNumber(json.temperature)
    \/ /\ json.type = "nvme"
       /\ \/ IsFiniteNumber(json.log.composite_temperature)
          \/ IsFiniteNumber(json.log.temperature_sensors)

summarizeSmartRaises(json) ==
    /\ json.table = "notlist"
    /\ \/ json.type # "nvme"
       \/ server = "stream" /\ ~TemperatureBeforeTable(json)

\* Mutant of extractTemperatureC: attribute 190 is looked at before 194.
extractTemperatureCAirflowFirst(json) ==
    LET log == json.log
        a194 == FindFirst({n \in DOMAIN json.attrs : IsTemp194(json.attrs[n])})
        a190 == FindFirst({n \in DOMAIN json.attrs : IsTemp190(json.attrs[n])})
        raw(n) == IF n = 0 THEN <<Absent, Absent>>
                  ELSE <<json.attrs[n].raw_value, json.attrs[n].raw_string>>
    IN  IF IsFiniteNumber(json.temperature) THEN ToNumber(json.temperature)
        ELSE IF json.type = "nvme" /\ IsFiniteNumber(log.composite_temperature)
                THEN Num(ToNumber(log.composite_temperature).n - 273)
        ELSE IF json.type = "nvme" /\ IsFiniteNumber(log.temperature_sensors)
                THEN Num(ToNumber(log.temperature_sensors).n - 273)
        ELSE FirstParsed(raw(a190) \o raw(a194))

\* extractTemperatureC (index.js), on a payload it does not raise on.
extractTemperatureC(json) ==
    LET log == json.log
        a194 == FindFirst({n \in DOMAIN json.attrs : IsTemp194(json.attrs[n])})
        a190 == FindFirst({n \in DOMAIN json.attrs : IsTemp190(json.attrs[n])})
        raw(n) == IF n = 0 THEN <<Absent, Absent>>
                  ELSE <<json.attrs[n].raw_value, json.attrs[n].raw_string>>
    IN  IF IsFiniteNumber(json.temperature) THEN ToNumber(json.temperature)
        ELSE IF json.type = "nvme" /\ IsFiniteNumber(log.composite_temperature)
                THEN Num(ToNumber(log.composite_temperature).n - 273)
        ELSE IF json.type = "nvme" /\ IsFiniteNumber(log.temperature_sensors)
                THEN Num(ToNumber(log.temperature_sensors).n - 273)
        ELSE FirstParsed(raw(a194) \o raw(a190))

\* Mutant of MathRound: the fraction is cut off.
MathRoundDown(num, den) == num \div den

\* Math.round(num / den) for den > 0: the nearest integer, a half going up.
MathRound(num, den) == (2 * num + den) \div (2 * den)

\* Math.round(((units * bytes) / (1024 ** 3)) * 100), where bytes * 100 / 2^30
\* is mul / den in lowest terms: 3125 / 65536 for the 512000 bytes of an NVMe
\* data unit, 25 / 524288 for the 512 bytes of an LBA.  The whole multiples
\* of den in units are taken out first, which keeps the numbers small and
\* does not change the result.
RoundedHundredths(units, mul, den) ==
    (units \div den) * mul + MathRound((units % den) * mul, den)

\* writtenGB, in hundredths of a GB (the code divides the rounded number by 100).
writtenGB(json) ==
    IF json.type = "nvme"
       THEN RoundedHundredths(toNumberSafe(json.log.data_units_written), 3125, 65536)
       ELSE LET lbasAttr == FindFirst({n \in DOMAIN json.attrs : IsLbasAttr(json.attrs[n])}) IN
            RoundedHundredths(
                IF lbasAttr = 0 THEN 0 ELSE toNumberSafe(json.attrs[lbasAttr].raw_value),
                25, 524288)

\* healthPercent: Absent is undefined.
healthPercent(json) ==
    IF json.type = "nvme"
       THEN LET left == 100 - toNumberSafe(json.log.percentage_used) IN
            Num(IF left > 0 THEN left ELSE 0)
       ELSE LET lifeAttr == FindFirst({n \in DOMAIN json.attrs : IsLifeAttr(json.attrs[n])}) IN
            IF lifeAttr # 0 /\ IsFiniteNumber(json.attrs[lifeAttr].value)
               THEN ToNumber(json.attrs[lifeAttr].value)
            ELSE IF json.smart_status = "passed" THEN Num(100)
            ELSE IF json.smart_status = "failed" THEN Num(0)
            ELSE Absent

\* liveTempC of part_000: composite_temperature - 273 when that is truthy, for
\* NVMe (the subtraction converts with Number); Number(raw.value) of attribute
\* 194 otherwise.
liveTempCPoller(json) ==
    IF json.type = "nvme"
       THEN LET k == json.log.composite_temperature IN
            IF ~Truthy(k) THEN Absent
            ELSE MinusKelvin(ToNumber(k))
       ELSE LET tempAttr == FindFirst({n \in DOMAIN json.attrs : IsTemp194(json.attrs[n])}) IN
            IF tempAttr = 0 THEN Absent
            ELSE ToNumber(json.attrs[tempAttr].raw_value)

\* liveTempC of index.js: the extractor, then the fallbacks of either branch.
liveTempCStream(json) ==
    LET extracted == extractTemperatureC(json)
        tempAttr == FindFirst({n \in DOMAIN json.attrs : IsTempAttr(json.attrs[n])})
        raw == IF tempAttr = 0 THEN Absent
               ELSE IF ~Nullish(json.attrs[tempAttr].raw_value)
                       THEN json.attrs[tempAttr].raw_value
               ELSE json.attrs[tempAttr].raw_string
    IN  IF extracted.t # "absent" THEN extracted
        ELSE IF json.type = "nvme"
                THEN IF IsFiniteNumber(json.log.composite_temperature)
                        THEN Num(ToNumber(json.log.composite_temperature).n - 273)
                        ELSE Absent
        ELSE IF ~Nullish(raw) /\ IsFiniteNumber(FirstInteger(raw))
                THEN FirstInteger(raw)
        ELSE Absent

liveTempC(json) == IF server = "stream" THEN liveTempCStream(json) ELSE liveTempCPoller(json)

\* `v || 0`: the value when it is truthy, else 0.
OrZero(v) == IF Truthy(v) THEN v ELSE Num(0)

\* The record summarizeSmart returns (on a payload it does not raise on).
\* TemperatureC is a field of index.js only.  CriticalWarning is the one
\* counter that is not passed through toNumberSafe.
summarizeSmart(json, deviceName) ==
    LET common ==
          [Device |-> deviceName,
           Type   |-> IF json.type = "" THEN "unknown" ELSE json.type,
           Model  |-> IF json.model_name # "" THEN json.model_name ELSE json.model_family,
           Serial |-> json.serial_number,
           HealthPercent |-> healthPercent(json),
           WrittenGB |-> writtenGB(json),
           PowerCycles |-> toNumberSafe(json.counters.power_cycle_count),
           PowerOnHours |-> toNumberSafe(json.counters.power_on_hours),
           UnsafeShutdowns |-> toNumberSafe(json.counters.unsafe_shutdowns),
           DataUnitsRead |-> toNumberSafe(OrZero(json.log.data_units_read)),
           DataUnitsWritten |-> toNumberSafe(OrZero(json.log.data_units_written)),
           HostReadCommands |-> toNumberSafe(OrZero(json.log.host_reads)),
           HostWriteCommands |-> toNumberSafe(OrZero(json.log.host_writes)),
           ControllerBusyTimeMinutes |-> toNumberSafe(OrZero(json.log.controller_busy_time)),
           MediaDataIntegrityErrors |->
               toNumberSafe(json.counters.media_and_data_integrity_errors),
           ErrorLogEntries |->
               toNumberSafe(json.counters.number_of_error_information_log_entries),
           CompositeTemperatureK |-> json.log.composite_temperature,
           LiveTemperatureC |-> liveTempC(json),
           CriticalWarning |-> OrZero(json.log.critical_warning),
           AvailableSparePercent |-> toNumberSafe(json.log.available_spare),
           AvailableSpareThreshold |-> toNumberSafe(json.log.available_spare_threshold),
           PercentageUsed |-> toNumberSafe(json.log.percentage_used),
           WarningTempTimeMinutes |->
               toNumberSafe(json.log.warning_composite_temperature_time),
           CriticalTempTimeMinutes |->
               toNumberSafe(json.log.critical_composite_temperature_time)]
    IN  IF server = "stream"
           THEN [TemperatureC |-> liveTempC(json)] @@ common
           ELSE common

\* The entry pushed by the aggregator's catch: { Device, error: true, message }.
ErrorEntry(name) ==
    [Device |-> name, error |-> TRUE, message |-> "attrs.find is not a function"]

---------------------------------------------------------------------------
\* summaries.sort((a, b) => String(a.Device).localeCompare(String(b.Device))):
\* Array.prototype.sort is stable; a stable insertion sort gives its result.

RECURSIVE InsertSorted(_, _)
InsertSorted(sorted, e) ==
    IF sorted = <<>> THEN <<e>>
    ELSE LET last == sorted[Len(sorted)] IN
         IF localeCompare(last.Device, e.Device) <= 0
            THEN Append(sorted, e)
            ELSE Append(InsertSorted(SubSeq(sorted, 1, Len(sorted) - 1), e), last)

RECURSIVE SortFrom(_, _, _)
SortFrom(entries, n, acc) ==
    IF n > Len(entries) THEN acc
    ELSE SortFrom(entries, n + 1, InsertSorted(acc, entries[n]))

\* Mutant of SortByDevice: the sort is left out.
SortByDeviceOmitted(entries) == entries

SortByDevice(entries) == SortFrom(entries, 1, <<>>)

---------------------------------------------------------------------------
\* The sweep: the body shared by pollDrives, getAllDriveSummaries and
\* getDriveSummariesOnly.  getAllDriveSummaries awaits
\* Promise.all([scanDevices(), getDiskSpace()]): both children are started by
\* the call, the promise is rejected as soon as the scan raises, and it is
\* fulfilled when the scan has returned and wmic has exited, in either
\* order.  getDiskSpace never rejects, and sendEvent writes the Drives only,
\* so of getDiskSpace the sweep keeps only whether it has settled: disk is
\* "none" for the callers that do not start it, else "pending" or "settled".
\* pc is "scan" while the scan is awaited, "disk" when the scan has returned
\* and wmic is still awaited, "read" in the reader of a device.

IdleSweep ==
    [pc |-> "idle", caller |-> "none", stream |-> 0, disk |-> "none",
     devices |-> <<>>, i |-> 0, k |-> 0, summaries |-> <<>>, noTelemetry |-> <<>>]

\* A call: the sweep runs to `await runSmartctl(["--scan", "-j"])`; the sweep
\* of a stream (getAllDriveSummaries) has started wmic as well.
StartedSweep(caller, t) ==
    [IdleSweep EXCEPT !.pc = "scan", !.caller = caller, !.stream = t,
                      !.disk = IF caller = "stream" THEN "pending" ELSE "none"]

InFlight(s) == sweep[s].pc \in {"scan", "disk", "read"}
FreeSlot(s) == sweep[s].pc = "idle" /\ \A r \in 1..(s - 1) : sweep[r].pc # "idle"

\* scanDevices: raises when runSmartctl rejects or its output is not JSON;
\* otherwise parsed.devices when that is an array, else [].
scanDevicesRaises(out) == out.rejected \/ out.kind = "garbage"
scanDevices(out) == IF out.kind = "json" THEN out.devices ELSE <<>>

ScanRejected == [rejected |-> TRUE, kind |-> "none", devices |-> <<>>]
ScanStdout(kind, devices) == [rejected |-> FALSE, kind |-> kind, devices |-> devices]
ScanOutcomes ==
    {ScanRejected, ScanStdout("garbage", <<>>), ScanStdout("empty", <<>>)}
        \cup {ScanStdout("json", d) : d \in attached}

\* First entry at or after j that has a name (`if (!name) continue`).
RECURSIVE NextNamed(_, _)
NextNamed(devices, j) ==
    IF j > Len(devices) THEN j
    ELSE IF devices[j].name = NoName THEN NextNamed(devices, j + 1)
    ELSE j

\* The for-loop from entry j on: it suspends in readSmartForDevice at the first
\* access mode of the next named device, or ends with the in-place sort.
ForLoop(sw, j) ==
    LET n == NextNamed(sw.devices, j) IN
    IF n > Len(sw.devices)
       THEN [sw EXCEPT !.pc = "done", !.i = n, !.k = 0,
                       !.summaries = SortByDevice(sw.summaries)]
       ELSE [sw EXCEPT !.pc = "read", !.i = n, !.k = 1]

\* Mutant of ReaderStep: when the last access mode fails the reader starts over
\* with the first one instead of returning {}.
ReaderStepStartsOver(sw, out) ==
    LET name == sw.devices[sw.i].name
        accepted == /\ ~out.rejected
                    /\ ~JSONparseRaises(out)
                    /\ ValidPayload(JSONparse(out))
        j == JSONparse(out)
    IN  IF accepted
           THEN IF summarizeSmartRaises(j)
                   THEN ForLoop([sw EXCEPT !.summaries = Append(@, ErrorEntry(name))], sw.i + 1)
                   ELSE ForLoop([sw EXCEPT !.summaries = Append(@, summarizeSmart(j, name))],
                                sw.i + 1)
           ELSE [sw EXCEPT !.k = IF sw.k < Len(argSets) THEN sw.k + 1 ELSE 1]

\* Mutant of ReaderStep: a device whose reader gives up, or whose payload
\* summarizeSmart raises on, ends the whole cycle as failed.
ReaderStepAbortsCycle(sw, out) ==
    LET name == sw.devices[sw.i].name
        accepted == /\ ~out.rejected
                    /\ ~JSONparseRaises(out)
                    /\ ValidPayload(JSONparse(out))
        j == JSONparse(out)
    IN  IF accepted
           THEN IF summarizeSmartRaises(j)
                   THEN [sw EXCEPT !.pc = "failed"]
                   ELSE ForLoop([sw EXCEPT !.summaries = Append(@, summarizeSmart(j, name))],
                                sw.i + 1)
           ELSE IF sw.k < Len(argSets)
                   THEN [sw EXCEPT !.k = sw.k + 1]
                   ELSE [sw EXCEPT !.pc = "failed"]

\* Mutant of ReaderStep: the reader's catch does not cover JSON.parse, so
\* output that is not JSON makes the reader raise and the aggregator's catch
\* pushes an error entry for the device.
ReaderStepParseUncaught(sw, out) ==
    LET name == sw.devices[sw.i].name
        accepted == /\ ~out.rejected
                    /\ ~JSONparseRaises(out)
                    /\ ValidPayload(JSONparse(out))
        j == JSONparse(out)
    IN  IF ~out.rejected /\ JSONparseRaises(out)
           THEN ForLoop([sw EXCEPT !.summaries = Append(@, ErrorEntry(name))], sw.i + 1)
        ELSE IF accepted
           THEN IF summarizeSmartRaises(j)
                   THEN ForLoop([sw EXCEPT !.summaries = Append(@, ErrorEntry(name))], sw.i + 1)
                   ELSE ForLoop([sw EXCEPT !.summaries = Append(@, summarizeSmart(j, name))],
                                sw.i + 1)
        ELSE IF sw.k < Len(argSets)
           THEN [sw EXCEPT !.k = sw.k + 1]
           ELSE ForLoop([sw EXCEPT !.noTelemetry = Append(@, name)], sw.i + 1)

\* One settled runSmartctl of readSmartForDevice (try / catch of the argSets
\* loop), followed by the aggregator's handling of the reader's result.
ReaderStep(sw, out) ==
    LET name == sw.devices[sw.i].name
        accepted == /\ ~out.rejected
                    /\ ~JSONparseRaises(out)
                    /\ ValidPayload(JSONparse(out))
        j == JSONparse(out)
    IN  IF accepted
           THEN IF ~PassesFilter(j)
                   THEN ForLoop(sw, sw.i + 1)
                   ELSE IF summarizeSmartRaises(j)
                           THEN ForLoop([sw EXCEPT !.summaries = Append(@, ErrorEntry(name))],
                                        sw.i + 1)
                           ELSE ForLoop([sw EXCEPT !.summaries =
                                                     Append(@, summarizeSmart(j, name))],
                                        sw.i + 1)
           ELSE IF sw.k < Len(argSets)
                   THEN [sw EXCEPT !.k = sw.k + 1]
                   \* return {}: the filter drops the device
                   ELSE IF PassesFilter(EmptyObject)
                           THEN ForLoop([sw EXCEPT !.summaries =
                                                     Append(@, summarizeSmart(EmptyObject, name))],
                                        sw.i + 1)
                           ELSE ForLoop([sw EXCEPT !.noTelemetry = Append(@, name)],
                                        sw.i + 1)

\* Mutant of CacheAfter: every record is published as soon as it is pushed.
CacheAfterEachPush(old, sw) ==
    IF sw.caller = "poll" /\ sw.pc \in {"read", "done"} THEN sw.summaries ELSE old

\* Mutant of CacheAfter: a failed cycle publishes its (empty) list.
CacheAfterFailureToo(old, sw) ==
    IF sw.caller = "poll" /\ sw.pc \in {"done", "failed"} THEN sw.summaries ELSE old

\* The device whose reader the sweep is suspended in.
DeviceRead(sw) == sw.devices[sw.i].name

\* Mutant of AfterScan: the loop goes through the devices from the last one
\* the scan reported to the first.
AfterScanBackwards(sw, out) ==
    IF scanDevicesRaises(out)
       THEN [sw EXCEPT !.pc = "failed"]
       ELSE LET d == scanDevices(out)
                backwards == [n \in 1..Len(d) |-> d[Len(d) + 1 - n]]
            IN  IF sw.disk = "pending"
                   THEN [sw EXCEPT !.devices = backwards, !.pc = "disk"]
                   ELSE ForLoop([sw EXCEPT !.devices = backwards], 1)

\* The sweep when its scan has settled: the caller's promise is rejected, or
\* the sweep goes on waiting for wmic (Promise.all), or the loop runs to its
\* first probe (or to the end, with no named device).
AfterScan(sw, out) ==
    IF scanDevicesRaises(out)
       THEN [sw EXCEPT !.pc = "failed"]
       ELSE IF sw.disk = "pending"
               THEN [sw EXCEPT !.devices = scanDevices(out), !.pc = "disk"]
               ELSE ForLoop([sw EXCEPT !.devices = scanDevices(out)], 1)

\* The sweep when the wmic child of its getDiskSpace call has exited: with the
\* scan still awaited it goes on waiting for the scan; with the scan returned
\* Promise.all is fulfilled and the loop runs to its first probe (or to the
\* end, with no named device).
AfterDiskSpace(sw) ==
    IF sw.pc = "disk"
       THEN ForLoop([sw EXCEPT !.disk = "settled"], 1)
       ELSE [sw EXCEPT !.disk = "settled"]

ScanFailures == {out \in ScanOutcomes : scanDevicesRaises(out)}

\* drivesCache after a step of a pollDrives call: assigned once, after the sort.
CacheAfter(old, sw) ==
    IF sw.caller = "poll" /\ sw.pc = "done" THEN sw.summaries ELSE old

\* JSON.stringify of a number: NaN, Infinity and -Infinity are written null.
JSONvalue(v) == IF v.t \in {"NaN", "Infinity"} THEN Null ELSE v

\* The fields of a record that hold the value of a JSON field of the payload,
\* or of a computation that can give undefined; the others hold a string or a
\* finite number.
ValueFields ==
    {"HealthPercent", "CompositeTemperatureK", "LiveTemperatureC", "TemperatureC",
     "CriticalWarning"}

\* JSON.stringify of an entry, as the client parses it: a key whose value is
\* undefined is left out.
JSONobject(e) ==
    LET kept == {f \in DOMAIN e : f \in ValueFields => e[f] # Absent} IN
    [f \in kept |-> IF f \in ValueFields THEN JSONvalue(e[f]) ELSE e[f]]

\* JSON.stringify of a drive list, as the client parses it.
JSONstringify(list) == [n \in 1..Len(list) |-> JSONobject(list[n])]

\* response is the last (status, body) handed to sendJson: key is the one key
\* of the body object ("Drives", "Volumes", or "error" for { error, message })
\* and "" when the body is a bare array (the poller) or nothing was sent yet;
\* data is what JSON.stringify(body) puts on the wire, as the client parses it.
NoResponse == [status |-> 0, key |-> "", body |-> <<>>, data |-> <<>>]

\* sendJson(res, status, body)
sendJson(status, key, body) ==
    [status |-> status, key |-> key, body |-> body,
     data |-> IF key \in {"", "Drives"} THEN JSONstringify(body) ELSE body]

\* The drive list of a response (none in an error or a Volumes response).
DrivesIn(resp) == IF resp.key \in {"", "Drives"} THEN resp.body ELSE <<>>

\* The drive list a response carries on the wire.
DrivesSent(resp) == IF resp.key \in {"", "Drives"} THEN resp.data ELSE <<>>

\* The interval parameter of a stream request, as query.get("interval") gives
\* it: null when the URL has none, else its text.  A numeral is kept as the
\* number it denotes in units of 1/10000 s, so that 2.5009 s is 25009.
NoInterval == [t |-> "null", n |-> 0]
IntervalText(t) == [t |-> t, n |-> 0]
IntervalSeconds(n) == [t |-> "numeral", n |-> n]

IntervalQueries ==
    {NoInterval, IntervalText("empty"), IntervalText("blank"), IntervalText("abc"),
     IntervalText("Infinity")}
        \cup {IntervalSeconds(n) :
                 n \in {-20000, -1, 0, 4, 10, 10000, 10010, 10020, 25009, 600000}}

\* Number(query.get("interval")): null, "" and white space convert to 0, a
\* numeral to its number, "Infinity" to Infinity and any other text to NaN.
NumberOfQuery(q) ==
    CASE q.t \in {"null", "empty", "blank"} -> [finite |-> TRUE, n |-> 0]
      [] q.t = "numeral" -> [finite |-> TRUE, n |-> q.n]
      [] OTHER -> [finite |-> FALSE, n |-> 0]

DefaultIntervalMs == 10000

\* floor(log2(m)) for m >= 1, and powers of two.
RECURSIVE FloorLog2(_)
FloorLog2(m) == IF m < 2 THEN 0 ELSE 1 + FloorLog2(m \div 2)

RECURSIVE Pow2(_)
Pow2(k) == IF k <= 0 THEN 1 ELSE 2 * Pow2(k - 1)

RECURSIVE Pow2Mod1000(_)
Pow2Mod1000(k) == IF k <= 0 THEN 1 ELSE (2 * Pow2Mod1000(k - 1)) % 1000

\* Math.floor(seconds * 1000) for seconds = n / 10000, n > 0, as the code
\* computes it: seconds is the double nearest to the numeral and the product
\* is rounded to a double again.  When n / 10 is not whole the product is
\* well inside (n \div 10, n \div 10 + 1).  When it is a whole number m, the
\* double x nearest to m / 1000 is q * 2^-k with k = 52 - i, 2^i <= m / 1000
\* < 2^(i+1), and 1000 * x = m - r / 2^k when the remainder r of m * 2^k by
\* 1000 is under 500 (q rounded down).  With 2^j <= m < 2^(j+1) the doubles
\* below m are 2^(j-52) apart (half of that below a power of two), so the
\* product is rounded to the double below m, and the floor is m - 1, exactly
\* when r is more than half that distance in units of 2^-k; at exactly half it
\* goes to m, whose significand is even.  (Exact for m < 2^22.)
MillisecondsFloor(n) ==
    IF n % 10 # 0 THEN n \div 10
    ELSE LET m == n \div 10
             j == FloorLog2(m)
             i == IF 64 * m >= 125 * Pow2(j) THEN j - 9 ELSE j - 10
             r == ((m % 1000) * Pow2Mod1000(52 - i)) % 1000
             half == IF m = Pow2(j) THEN Pow2(j - i - 2) ELSE Pow2(j - i - 1)
         IN  IF r > half /\ r < 500 THEN m - 1 ELSE m

\* let intervalMs = 10000; if (Number.isFinite(seconds) && seconds > 0)
\* intervalMs = Math.floor(seconds * 1000);  (seconds.n is in 1/10000 s.)
intervalMs(q) ==
    LET seconds == NumberOfQuery(q) IN
    IF seconds.finite /\ seconds.n > 0
       THEN MillisecondsFloor(seconds.n) ELSE DefaultIntervalMs

\* Before summarizeSmart has been called.
NoRecord == [raised |-> FALSE, returned |-> FALSE]

\* A stream that no client has opened yet.
NoStream ==
    [connected |-> FALSE, closed |-> FALSE, timer |-> FALSE, intervalMs |-> 0,
     cleanups |-> 0, writes |-> 0, lateWrites |-> 0, data |-> <<>>]

---------------------------------------------------------------------------
\* The poller (part_000, second program).

InitPoller ==
    /\ server = "poller"
    /\ alive = TRUE
    \* `pollDrives(); // initial poll` has run to its first await
    /\ sweep = [s \in Sweeps |-> IF s = 1 THEN StartedSweep("poll", 0) ELSE IdleSweep]
    /\ drivesCache = <<>>
    /\ response = NoResponse
    /\ volumeRequests = 0
    \* disks are plugged and unplugged while the poller runs
    /\ attached = ScanOutputs
    /\ stream = [t \in Streams |-> NoStream]
    /\ query = NoInterval
    /\ payload = EmptyObject
    /\ record = NoRecord
    /\ invocations = <<>>

\* setInterval(pollDrives, POLL_INTERVAL_MS): a tick calls pollDrives whatever
\* the earlier calls are doing.
Tick(s) ==
    /\ server = "poller" /\ alive
    /\ FreeSlot(s)
    /\ sweep' = [sweep EXCEPT ![s] = StartedSweep("poll", 0)]
    /\ UNCHANGED <<server, volumeRequests, alive, drivesCache, response, attached, stream, query,
                   payload, record, invocations>>

\* The scan of a pollDrives call raises: the promise pollDrives returned is
\* rejected and nothing handles it.  Node reports the unhandled rejection and
\* goes on, or terminates the process (the default since Node 15).
PollScanFails(s) ==
    /\ server = "poller" /\ alive
    /\ sweep[s].pc = "scan"
    /\ \E next \in {AfterScan(sweep[s], out) : out \in ScanFailures} :
          sweep' = [sweep EXCEPT ![s] = next]
    /\ drivesCache' = CacheAfter(drivesCache, sweep'[s])
    /\ alive' \in BOOLEAN
    /\ UNCHANGED <<server, volumeRequests, response, attached, stream, query, payload, record, invocations>>

PollScanReturns(s) ==
    /\ server = "poller" /\ alive
    /\ sweep[s].pc = "scan"
    /\ \E next \in {AfterScan(sweep[s], out) : out \in ScanOutcomes \ ScanFailures} :
          sweep' = [sweep EXCEPT ![s] = next]
    /\ drivesCache' = CacheAfter(drivesCache, sweep'[s])
    /\ UNCHANGED <<server, volumeRequests, alive, response, attached, stream, query, payload, record, invocations>>

PollProbeReturns(s) ==
    /\ server = "poller" /\ alive
    /\ sweep[s].pc = "read"
    /\ \E next \in {ReaderStep(sweep[s], out) : out \in ProbeOutcomes(DeviceRead(sweep[s]))} :
          sweep' = [sweep EXCEPT ![s] = next]
    /\ drivesCache' = CacheAfter(drivesCache, sweep'[s])
    /\ UNCHANGED <<server, volumeRequests, alive, response, attached, stream, query, payload, record, invocations>>

\* GET / or /api/drives of the poller: sendJson(res, 200, drivesCache).
GetCached ==
    /\ server = "poller" /\ alive
    /\ response' = sendJson(200, "", drivesCache)
    /\ UNCHANGED <<server, volumeRequests, alive, sweep, drivesCache, attached, stream, query,
                   payload, record, invocations>>

NextPoller ==
    \/ \E s \in Sweeps : Tick(s)
    \/ \E s \in Sweeps : PollScanFails(s)
    \/ \E s \in Sweeps : PollScanReturns(s)
    \/ \E s \in Sweeps : PollProbeReturns(s)
    \/ GetCached

SpecPoller == InitPoller /\ [][NextPoller]_vars

---------------------------------------------------------------------------
\* The streaming server (index.js).

InitStream ==
    /\ server = "stream"
    /\ alive = TRUE
    /\ sweep = [s \in Sweeps |-> IdleSweep]
    /\ drivesCache = <<>>
    /\ response = NoResponse
    /\ volumeRequests = 0
    \* disks are plugged and unplugged while the server runs
    /\ attached = ScanOutputs
    /\ stream = [t \in Streams |-> NoStream]
    \* the clients of this run ask for the default interval, or for 2.5 s
    /\ query \in {NoInterval, IntervalSeconds(25000)}
    /\ payload = EmptyObject
    /\ record = NoRecord
    /\ invocations = <<>>

NextStreamId(t) == ~stream[t].connected /\ \A u \in 1..(t - 1) : stream[u].connected

\* sendEvent's first line, `if (closed) return;`: whether the call goes on to
\* getAllDriveSummaries.
sendEventSweeps(st) == ~st.closed

\* GET /api/drives/stream: the interval is parsed, writeHead, sendEvent() at
\* once (it suspends in the scan), then setInterval(sendEvent, intervalMs) and
\* the close/end listeners.
Connect(t, s) ==
    /\ server = "stream" /\ alive
    /\ NextStreamId(t)
    /\ FreeSlot(s)
    /\ stream' = [stream EXCEPT ![t] = [@ EXCEPT !.connected = TRUE, !.timer = TRUE,
                                                 !.intervalMs = intervalMs(query)]]
    /\ sweep' = [sweep EXCEPT ![s] =
                    IF sendEventSweeps(stream[t]) THEN StartedSweep("stream", t) ELSE @]
    /\ UNCHANGED <<server, volumeRequests, alive, drivesCache, response, attached, query,
                   payload, record, invocations>>

\* A tick of a stream's interval timer: sendEvent.
StreamTick(t, s) ==
    /\ server = "stream" /\ alive
    /\ stream[t].timer
    /\ FreeSlot(s)
    /\ sweep' = [sweep EXCEPT ![s] =
                    IF sendEventSweeps(stream[t]) THEN StartedSweep("stream", t) ELSE @]
    /\ UNCHANGED <<server, volumeRequests, alive, drivesCache, response, attached, stream, query,
                   payload, record, invocations>>

\* Mutant of cleanup: one closed flag and one timer shared by all streams.
cleanupShared(streams, t) ==
    IF streams[t].closed THEN streams
    ELSE [u \in DOMAIN streams |-> [streams[u] EXCEPT !.closed = TRUE, !.timer = FALSE]]

\* cleanup of stream t: closed = true, clearInterval(timer), res.end(); a
\* second call returns at `if (closed) return;`.
cleanup(streams, t) ==
    IF streams[t].closed THEN streams
    ELSE [streams EXCEPT ![t] = [@ EXCEPT !.closed = TRUE, !.timer = FALSE]]

\* The request emits "close" or "end": req.on("close", cleanup) and
\* req.on("end", cleanup).  Each is emitted at most once, in either order;
\* cleanups counts the calls.
RequestEvents == {"close", "end"}
RequestEvent(t) ==
    /\ server = "stream" /\ alive
    /\ stream[t].connected
    /\ stream[t].cleanups < Cardinality(RequestEvents)
    /\ stream' = [cleanup(stream, t) EXCEPT ![t].cleanups = @ + 1]
    /\ UNCHANGED <<server, volumeRequests, alive, sweep, drivesCache, response, attached, query,
                   payload, record, invocations>>

\* GET / or /api/drives of index.js: the handler awaits getDriveSummariesOnly.
GetDrives(s) ==
    /\ server = "stream" /\ alive
    /\ FreeSlot(s)
    /\ sweep' = [sweep EXCEPT ![s] = StartedSweep("get", 0)]
    /\ UNCHANGED <<server, volumeRequests, alive, drivesCache, response, attached, stream, query,
                   payload, record, invocations>>

\* What wmic gives getDiskSpace's callback: an error, or stdout as its rows
\* after the header.  A row is complete when it has as many fields as the
\* header; size and free are the texts of its columns.
WmicError == [error |-> TRUE, header |-> FALSE, rows |-> <<>>]
WmicStdout(header, rows) == [error |-> FALSE, header |-> header, rows |-> rows]
WmicRow(deviceid, complete, free, size) ==
    [deviceid |-> deviceid, complete |-> complete, free |-> free, size |-> size]

WmicOutcomes ==
    { WmicError,
      WmicStdout(FALSE, <<>>),
      WmicStdout(TRUE, <<>>),
      WmicStdout(TRUE, <<WmicRow("C:", TRUE, Numeral(200), Numeral(500)),
                         WmicRow("D:", TRUE, Empty, Empty),
                         WmicRow("E:", FALSE, Numeral(1), Numeral(2)),
                         WmicRow("F:", TRUE, Text, Numeral(500)),
                         WmicRow("G:", TRUE, Numeral(0), Numeral(0))>>) }

\* The rows getDiskSpace makes a volume of: complete, free and size convert
\* to finite numbers, and size is not 0.
RECURSIVE VolumesOf(_)
VolumesOf(rows) ==
    IF rows = <<>> THEN <<>>
    ELSE LET row == rows[1]
             kept == /\ row.complete
                     /\ IsFiniteNumber(row.free) /\ IsFiniteNumber(row.size)
                     /\ ToNumber(row.size) # Num(0)
         IN  (IF kept THEN <<[DriveLetter |-> row.deviceid]>> ELSE <<>>)
                 \o VolumesOf(Tail(rows))

\* getDiskSpace: [] on an error of wmic and on output without a row after the
\* header, else the volumes, reduced here to their DriveLetter.  It never
\* rejects.
getDiskSpace(out) ==
    IF out.error \/ ~out.header \/ out.rows = <<>> THEN <<>> ELSE VolumesOf(out.rows)

\* GET /api/drives/volumes: the handler starts wmic and is suspended in
\* `await getDiskSpace()`.
GetVolumes ==
    /\ server = "stream" /\ alive
    /\ volumeRequests < MaxVolumeRequests
    /\ volumeRequests' = volumeRequests + 1
    /\ UNCHANGED <<server, alive, sweep, drivesCache, response, attached, stream, query,
                   payload, record, invocations>>

\* wmic exits for a suspended volumes handler, which sends the volumes; its
\* catch (500) is never entered, since getDiskSpace never rejects.
VolumesReturn ==
    /\ server = "stream" /\ alive
    /\ volumeRequests > 0
    /\ volumeRequests' = volumeRequests - 1
    /\ \E out \in WmicOutcomes :
          response' = sendJson(200, "Volumes", getDiskSpace(out))
    /\ UNCHANGED <<server, alive, sweep, drivesCache, attached, stream, query,
                   payload, record, invocations>>

\* What the caller of a sweep does when the sweep has settled: the GET handler
\* sends the list (200) or the error (500); sendEvent writes one data event or
\* one error event to its response, ended or not.
ResponseAfter(old, sw) ==
    IF sw.caller # "get" THEN old
    ELSE IF sw.pc = "done" THEN sendJson(200, "Drives", sw.summaries)
    ELSE IF sw.pc = "failed" THEN sendJson(500, "error", <<>>)
    ELSE old

\* data is the drive list of the last data event a client was sent:
\* res.write(`data: ${JSON.stringify({ Drives: payload.Drives })}\n\n`).
StreamsAfter(streams, sw) ==
    IF sw.caller = "stream" /\ sw.pc \in {"done", "failed"}
       THEN [streams EXCEPT ![sw.stream] =
                IF @.closed THEN [@ EXCEPT !.lateWrites = @ + 1]
                ELSE IF sw.pc = "done"
                        THEN [@ EXCEPT !.writes = @ + 1, !.data = JSONstringify(sw.summaries)]
                        ELSE [@ EXCEPT !.writes = @ + 1]]
       ELSE streams

SweepScanFails(s) ==
    /\ server = "stream" /\ alive
    /\ sweep[s].pc = "scan"
    /\ \E next \in {AfterScan(sweep[s], out) : out \in ScanFailures} :
          sweep' = [sweep EXCEPT ![s] = next]
    /\ response' = ResponseAfter(response, sweep'[s])
    /\ stream' = StreamsAfter(stream, sweep'[s])
    /\ UNCHANGED <<server, volumeRequests, alive, drivesCache, attached, query, payload, record, invocations>>

SweepScanReturns(s) ==
    /\ server = "stream" /\ alive
    /\ sweep[s].pc = "scan"
    /\ \E next \in {AfterScan(sweep[s], out) : out \in ScanOutcomes \ ScanFailures} :
          sweep' = [sweep EXCEPT ![s] = next]
    /\ response' = ResponseAfter(response, sweep'[s])
    /\ stream' = StreamsAfter(stream, sweep'[s])
    /\ UNCHANGED <<server, volumeRequests, alive, drivesCache, attached, query, payload, record, invocations>>

\* wmic exits (execFile's callback resolves getDiskSpace's promise) for a
\* sweep that still awaits Promise.all.
SweepDiskSpaceReturns(s) ==
    /\ server = "stream" /\ alive
    /\ sweep[s].pc \in {"scan", "disk"}
    /\ sweep[s].disk = "pending"
    /\ sweep' = [sweep EXCEPT ![s] = AfterDiskSpace(sweep[s])]
    /\ response' = ResponseAfter(response, sweep'[s])
    /\ stream' = StreamsAfter(stream, sweep'[s])
    /\ UNCHANGED <<server, volumeRequests, alive, drivesCache, attached, query, payload, record, invocations>>

SweepProbeReturns(s) ==
    /\ server = "stream" /\ alive
    /\ sweep[s].pc = "read"
    /\ \E next \in {ReaderStep(sweep[s], out) : out \in ProbeOutcomes(DeviceRead(sweep[s]))} :
          sweep' = [sweep EXCEPT ![s] = next]
    /\ response' = ResponseAfter(response, sweep'[s])
    /\ stream' = StreamsAfter(stream, sweep'[s])
    /\ UNCHANGED <<server, volumeRequests, alive, drivesCache, attached, query, payload, record, invocations>>

NextStream ==
    \/ \E t \in Streams, s \in Sweeps : Connect(t, s)
    \/ \E t \in Streams, s \in Sweeps : StreamTick(t, s)
    \/ \E t \in Streams : RequestEvent(t)
    \/ \E s \in Sweeps : GetDrives(s)
    \/ GetVolumes
    \/ VolumesReturn
    \/ \E s \in Sweeps : SweepScanFails(s)
    \/ \E s \in Sweeps : SweepScanReturns(s)
    \/ \E s \in Sweeps : SweepDiskSpaceReturns(s)
    \/ \E s \in Sweeps : SweepProbeReturns(s)

SpecStream == InitStream /\ [][NextStream]_vars

\* The streaming server with one disk, its clients asking for any interval.
InitInterval ==
    /\ server = "stream"
    /\ alive = TRUE
    /\ sweep = [s \in Sweeps |-> IdleSweep]
    /\ drivesCache = <<>>
    /\ response = NoResponse
    /\ volumeRequests = 0
    /\ attached = {<<[name |-> "/dev/sda"]>>}
    /\ stream = [t \in Streams |-> NoStream]
    /\ query \in IntervalQueries
    /\ payload = EmptyObject
    /\ record = NoRecord
    /\ invocations = <<>>

NextInterval ==
    \/ \E t \in Streams, s \in Sweeps : Connect(t, s)
    \/ \E t \in Streams, s \in Sweeps : StreamTick(t, s)
    \/ \E t \in Streams : RequestEvent(t)
    \/ \E s \in Sweeps : SweepScanFails(s)
    \/ \E s \in Sweeps : SweepScanReturns(s)
    \/ \E s \in Sweeps : SweepDiskSpaceReturns(s)
    \/ \E s \in Sweeps : SweepProbeReturns(s)

SpecInterval == InitInterval /\ [][NextInterval]_vars

---------------------------------------------------------------------------
\* readSmartForDevice on its own: the one call of the reader that a sweep of
\* either program makes for the one device its scan reported, with every
\* runSmartctl call of the reader recorded in `invocations`.

\* The sweep after its scan reported the device: it is suspended in the
\* reader's first `await runSmartctl(args)`.
ReadingSweep(caller, name) ==
    ForLoop([StartedSweep(caller, 0) EXCEPT !.devices = <<[name |-> name]>>], 1)

InitReader ==
    /\ server \in {"poller", "stream"}
    /\ alive = TRUE
    /\ \E name \in DeviceNames :
          sweep = [s \in Sweeps |->
                      IF s = 1
                         THEN ReadingSweep(IF server = "poller" THEN "poll" ELSE "get", name)
                         ELSE IdleSweep]
    /\ drivesCache = <<>>
    /\ response = NoResponse
    /\ volumeRequests = 0
    /\ attached = {}
    /\ stream = [t \in Streams |-> NoStream]
    /\ query = NoInterval
    /\ payload = EmptyObject
    /\ record = NoRecord
    /\ invocations = <<>>

\* The runSmartctl call the reader awaits settles: the reader goes on to its
\* next access mode, or returns and the caller's loop and sort run.
ReaderProbeReturns ==
    /\ alive
    /\ sweep[1].pc = "read"
    /\ \E out \in ProbeOutcomes(DeviceRead(sweep[1])) :
          /\ sweep' = [sweep EXCEPT ![1] = ReaderStep(sweep[1], out)]
          /\ invocations' = Append(invocations, [args |-> argSets[sweep[1].k], settled |-> out])
    /\ drivesCache' = CacheAfter(drivesCache, sweep'[1])
    /\ response' = ResponseAfter(response, sweep'[1])
    /\ UNCHANGED <<server, volumeRequests, alive, attached, stream, query, payload, record>>

NextReader == ReaderProbeReturns

SpecReader == InitReader /\ [][NextReader]_vars

---------------------------------------------------------------------------
\* summarizeSmart on its own: one call of either program's summarizeSmart on
\* one payload.

\* Attribute tables: none, LBAs written (also behind a row that has only the
\* id, also at a rounding tie, also with a raw value that is no number), wear
\* attributes (by id, by name, above 100, below 0, the first without a
\* value), temperatures (194, 190 before 194 or alone, 194 without raw, 194
\* whose raw readings are numerals with an exponent or in hexadecimal, or
\* infinite), and a table with one of each.
AttrTables ==
    { <<>>,
      <<Attr(241, "Total_LBAs_Written", Num(100), Num(2097152), Absent)>>,
      <<Attr(242, "Total_LBAs_Read", Num(100), Num(777), Absent),
        Attr(241, "Total_LBAs_Written", Num(100), Num(10486), Absent),
        Attr(242, "Total_LBAs_Written", Num(100), Num(5), Absent)>>,
      <<Attr(241, "Total_LBAs_Written", Num(100), Num(262144), Absent)>>,
      <<Attr(241, "Total_LBAs_Written", Num(100), Text, Absent)>>,
      <<Attr(177, "Wear_Leveling_Count", Num(93), Num(12), Absent)>>,
      <<Attr(233, "Media_Wearout_Indicator", Num(88), Num(0), Absent)>>,
      <<Attr(202, "Percent_Lifetime_Remain", Num(200), Num(0), Absent)>>,
      <<Attr(231, "SSD_Life_Left", Num(-3), Num(0), Absent)>>,
      <<Attr(231, "SSD_Life_Left", Absent, Num(0), Absent),
        Attr(177, "Wear_Leveling_Count", Num(90), Num(12), Absent)>>,
      <<Attr(231, "SSD_Life_Left", Empty, Num(0), Absent)>>,
      <<Attr(231, "SSD_Life_Left", Blank, Num(0), Absent)>>,
      <<Attr(231, "SSD_Life_Left", Null, Num(0), Absent)>>,
      <<Attr(177, "Wear_Leveling_Count", Numeral(80), Num(12), Absent)>>,
      <<Attr(241, "Total_LBAs_Written", Num(100), Empty, Absent)>>,
      <<Attr(241, "Total_LBAs_Written", Num(100), Numeral(2097152), Absent)>>,
      <<Attr(194, "Temperature_Celsius", Num(66), Empty, Numeral(34))>>,
      <<Attr(194, "Temperature_Celsius", Num(66), Empty, NumeralAs(34, 3))>>,
      <<Attr(194, "Temperature_Celsius", Num(66), NumeralAs(1000, 1), Absent)>>,
      <<Attr(194, "Temperature_Celsius", Num(66), NumeralAs(35, 0), Str(36))>>,
      <<Attr(194, "Temperature_Celsius", Num(66), InfinityText(1), Str(37))>>,
      <<Attr(194, "Temperature_Celsius", Num(66), InfinityText(-1), Absent)>>,
      <<Attr(194, "Temperature_Celsius", Num(66), OverflowNumeral(1, 1), Str(38))>>,
      <<Attr(194, "Temperature_Celsius", Num(66), HugeNumeral(1), Str(39))>>,
      <<Attr(194, "Temperature_Celsius", Num(66), Infinity(1), Absent),
        Attr(231, "SSD_Life_Left", InfinityText(1), Num(0), Absent)>>,
      <<Attr(231, "SSD_Life_Left", NumeralAs(34, 3), Num(0), Absent)>>,
      <<Attr(194, "Temperature_Celsius", Num(66), Null, Blank),
        Attr(190, "Airflow_Temperature_Cel", Num(70), Numeral(31), Absent)>>,
      <<Attr(194, "Temperature_Celsius", Num(65), Num(35), Str(35))>>,
      <<Attr(190, "Airflow_Temperature_Cel", Num(70), Absent, Str(30)),
        Attr(194, "Temperature_Celsius", Num(64), Text, Str(36))>>,
      <<Attr(190, "Airflow_Temperature_Cel", Num(70), Num(29), Absent)>>,
      <<Attr(194, "Temperature_Celsius", Num(65), Absent, Absent)>>,
      <<Attr(9, "Power_On_Hours", Num(99), Num(1200), Absent),
        Attr(177, "Wear_Leveling_Count", Num(97), Num(3), Absent),
        Attr(194, "Temperature_Celsius", Num(67), Num(33), Str(33)),
        Attr(241, "Total_LBAs_Written", Num(100), Num(4194304), Absent)>> }

\* Health logs: none, the one of a healthy disk, one at a rounding tie with a
\* sensor array only, one whose fields are texts, one with a negative and one
\* with an excessive percentage_used, and logs whose fields are empty
\* strings, white space, null, numerals, or infinite.
HealthyLog ==
    [NoLog EXCEPT
        !.data_units_read = Num(2000000), !.data_units_written = Num(1000000),
        !.host_reads = Num(500), !.host_writes = Num(400),
        !.controller_busy_time = Num(30), !.critical_warning = Num(0),
        !.available_spare = Num(100), !.available_spare_threshold = Num(10),
        !.percentage_used = Num(10), !.composite_temperature = Num(310)]

TextLog == [field \in DOMAIN NoLog |-> Text]
EmptyLog == [field \in DOMAIN NoLog |-> Empty]
BlankLog == [field \in DOMAIN NoLog |-> Blank]
NullLog == [field \in DOMAIN NoLog |-> Null]
NumeralLog ==
    [NoLog EXCEPT
        !.data_units_read = Numeral(2048), !.data_units_written = Numeral(1000000),
        !.critical_warning = Numeral(0), !.percentage_used = Numeral(25),
        !.composite_temperature = Numeral(310)]

InfiniteLog ==
    [NoLog EXCEPT
        !.data_units_read = Infinity(1), !.data_units_written = NumeralAs(1000, 1),
        !.host_reads = OverflowNumeral(1, 1), !.host_writes = HugeNumeral(1),
        !.critical_warning = InfinityText(1), !.percentage_used = InfinityText(1),
        !.composite_temperature = InfinityText(1)]

Logs ==
    { NoLog,
      HealthyLog,
      [NoLog EXCEPT
          !.data_units_written = Num(32768), !.percentage_used = Num(0),
          !.temperature_sensors = Num(300)],
      TextLog, EmptyLog, BlankLog, NullLog, NumeralLog, InfiniteLog,
      [NoLog EXCEPT !.composite_temperature = Infinity(-1)],
      [NoLog EXCEPT
          !.data_units_written = Num(11), !.percentage_used = Num(-5),
          !.composite_temperature = Num(0)],
      [HealthyLog EXCEPT
          !.data_units_written = Num(1), !.percentage_used = Num(150),
          !.critical_warning = Num(4),
          !.composite_temperature = Num(273), !.temperature_sensors = Num(274)] }

CounterBlocks ==
    { NoCounters,
      [power_cycle_count |-> Num(7), power_on_hours |-> Num(1200),
       unsafe_shutdowns |-> Num(2), media_and_data_integrity_errors |-> Num(0),
       number_of_error_information_log_entries |-> Num(5)],
      [power_cycle_count |-> Text, power_on_hours |-> Text,
       unsafe_shutdowns |-> Text, media_and_data_integrity_errors |-> Text,
       number_of_error_information_log_entries |-> Str(12)],
      [power_cycle_count |-> Empty, power_on_hours |-> Blank,
       unsafe_shutdowns |-> Null, media_and_data_integrity_errors |-> Numeral(3),
       number_of_error_information_log_entries |-> Empty] }

Tables ==
    {[table |-> "absent", attrs |-> <<>>], [table |-> "notlist", attrs |-> <<>>]}
        \cup {[table |-> "list", attrs |-> rows] : rows \in AttrTables}

Payloads ==
    { [model_name |-> "X", model_family |-> "", serial_number |-> "", type |-> type,
       smart_status |-> status, table |-> tab.table, attrs |-> tab.attrs,
       temperature |-> temperature, log |-> log, counters |-> counters] :
        type \in {"", "sat", "nvme"},
        status \in {"absent", "passed", "failed"},
        tab \in Tables,
        temperature \in {Absent, Text, Empty, Numeral(40), Num(41),
                         NumeralAs(34, 3), InfinityText(1)},
        log \in Logs,
        counters \in CounterBlocks }
      \cup
    { [EmptyObject EXCEPT !.model_name = name, !.model_family = "Family", !.type = type] :
        name \in {"", "X"}, type \in {"", "sat", "nvme"} }

InitNormalizer ==
    /\ server \in {"poller", "stream"}
    /\ alive = TRUE
    /\ sweep = [s \in Sweeps |-> IdleSweep]
    /\ drivesCache = <<>>
    /\ response = NoResponse
    /\ volumeRequests = 0
    /\ attached = {}
    /\ stream = [t \in Streams |-> NoStream]
    /\ query = NoInterval
    /\ payload \in Payloads
    /\ record = NoRecord
    /\ invocations = <<>>

\* summarizeSmart(payload, "/dev/sda") raises.
SummarizeRaises ==
    /\ record = NoRecord
    /\ summarizeSmartRaises(payload)
    /\ record' = [raised |-> TRUE, returned |-> FALSE]
    /\ UNCHANGED <<server, volumeRequests, alive, sweep, drivesCache, response, attached, stream, query,
                   payload, invocations>>

\* summarizeSmart(payload, "/dev/sda") returns.
SummarizeReturns ==
    /\ record = NoRecord
    /\ ~summarizeSmartRaises(payload)
    /\ record' = [raised |-> FALSE, returned |-> TRUE,
                  value |-> summarizeSmart(payload, "/dev/sda")]
    /\ UNCHANGED <<server, volumeRequests, alive, sweep, drivesCache, response, attached, stream, query,
                   payload, invocations>>

NextNormalizer == SummarizeRaises \/ SummarizeReturns

SpecNormalizer == InitNormalizer /\ [][NextNormalizer]_vars

\* Either program.
Init == InitPoller \/ InitStream
Next == NextPoller \/ NextStream
Spec == Init /\ [][Next]_vars


\* With fairness: every runSmartctl the poller awaits settles, and the event
\* loop then runs the continuation.
FairPoller ==
    /\ SpecPoller
    /\ \A s \in Sweeps : WF_vars(PollScanFails(s) \/ PollScanReturns(s))
    /\ \A s \in Sweeps : WF_vars(PollProbeReturns(s))

\* With the fairness the program itself provides: the interval timer fires.
\* Whether a smartctl process ever exits is up to the process.
TimerFairPoller ==
    /\ SpecPoller
    /\ WF_vars(\E s \in Sweeps : Tick(s))

---------------------------------------------------------------------------
\* Properties.

IsErrorEntry(e) == "error" \in DOMAIN e /\ e.error
NamedCount(devices) == Cardinality({n \in 1..Len(devices) : devices[n].name # NoName})
DeviceCount(list, name) == Cardinality({n \in 1..Len(list) : list[n].Device = name})
DeviceSeq(list) == [n \in 1..Len(list) |-> list[n].Device]
SortedByDevice(list) ==
    \A n \in 1..(Len(list) - 1) : localeCompare(list[n].Device, list[n + 1].Device) <= 0
Started(s, t) == sweep[s].pc = "idle" /\ sweep'[s].pc # "idle" /\ sweep'[s].stream = t

\* C1: at most one sweep is in flight at any time.
AtMostOneSweepInFlight == Cardinality({s \in Sweeps : InFlight(s)}) <= 1

\* C2: what a reader of drivesCache gets (the cache itself, and the body the
\* GET handler sent) is the initial empty list or the sorted list of one
\* pollDrives call that has processed all of its devices.
SnapshotIsOneFinishedCycle ==
    \A v \in {drivesCache, DrivesIn(response)} :
        \/ v = <<>>
        \/ \E s \in Sweeps :
              /\ sweep[s].caller = "poll"
              /\ sweep[s].pc = "done"
              /\ sweep[s].i > Len(sweep[s].devices)
              /\ v = sweep[s].summaries

\* C2 witness: a reader was answered with the two-entry list of a finished
\* cycle while a later cycle holds records it has not published.
SnapshotReadDuringCycle ==
    \E s, r \in Sweeps :
        /\ sweep[s].pc = "done" /\ Len(sweep[s].summaries) = 2
        /\ drivesCache = sweep[s].summaries
        /\ response = sendJson(200, "", drivesCache)
        /\ sweep[r].pc = "read" /\ sweep[r].summaries # <<>>
        /\ sweep[r].summaries # SubSeq(drivesCache, 1, 1)

\* C3: a finished cycle has one entry per named device, and every device
\* whose reader exhausted the access modes has an error entry.
EveryNamedDeviceHasAnEntry ==
    \A s \in Sweeps :
        sweep[s].pc = "done" =>
            /\ Len(sweep[s].summaries) = NamedCount(sweep[s].devices)
            /\ \A n \in 1..Len(sweep[s].noTelemetry) :
                  \E m \in 1..Len(sweep[s].summaries) :
                     /\ sweep[s].summaries[m].Device = sweep[s].noTelemetry[n]
                     /\ IsErrorEntry(sweep[s].summaries[m])

\* C4: every published list (drivesCache, a sent body, the list of a settled
\* sweep) is sorted by Device ascending, and two sweeps that publish the same
\* devices publish them in the same order.
PublishedListsSorted ==
    /\ SortedByDevice(drivesCache)
    /\ SortedByDevice(DrivesIn(response))
    /\ \A s \in Sweeps : sweep[s].pc = "done" => SortedByDevice(sweep[s].summaries)
    /\ \A s, r \in Sweeps :
          (/\ sweep[s].pc = "done" /\ sweep[r].pc = "done"
           /\ \A name \in DeviceNames :
                 DeviceCount(sweep[s].summaries, name) = DeviceCount(sweep[r].summaries, name))
          => DeviceSeq(sweep[s].summaries) = DeviceSeq(sweep[r].summaries)

\* C4 witness: the scan reported sdb before sda, both were read, and the
\* poller published them.
ScanOrderReversedPublished ==
    \E s \in Sweeps :
        /\ sweep[s].pc = "done"
        /\ sweep[s].devices = <<[name |-> "/dev/sdb"], [name |-> "/dev/sda"]>>
        /\ Len(sweep[s].summaries) = 2
        /\ drivesCache = sweep[s].summaries

\* C5: the step in which the scan of a cycle fails leaves drivesCache as it was.
ScanFailureKeepsSnapshot ==
    [][\A s \in Sweeps :
          (sweep[s].pc = "scan" /\ sweep'[s].pc = "failed") => drivesCache' = drivesCache]_vars

\* C5 witness: a cycle has failed, the process goes on, and drivesCache holds
\* the non-empty list of a finished cycle.
FailedCycleBesideSnapshot ==
    \E s, r \in Sweeps :
        /\ alive
        /\ sweep[s].pc = "failed"
        /\ sweep[r].pc = "done"
        /\ drivesCache = sweep[r].summaries
        /\ drivesCache # <<>>

\* C6: scanDevices never raises, so no sweep ends as failed.
ScanNeverRaises == \A s \in Sweeps : sweep[s].pc # "failed"

\* C7: no sweep is ever run on behalf of a reader (the GET handler or a
\* stream's event emission).
ReadersNeverProbe == \A s \in Sweeps : sweep[s].caller \notin {"get", "stream"}

\* C8: a step in which a request event of stream t runs cleanup leaves t
\* closed with its timer cleared, changes no other stream and no sweep, and
\* changes nothing but the count of calls when t was closed already; no step
\* starts a sweep for a closed stream.
CleanupStopsOnlyItsStream ==
    [][\A t \in Streams :
          /\ stream'[t].cleanups # stream[t].cleanups =>
                /\ stream'[t].closed /\ ~stream'[t].timer
                /\ \A u \in Streams \ {t} : stream'[u] = stream[u]
                /\ sweep' = sweep
                /\ stream[t].closed =>
                      stream'[t] = [stream[t] EXCEPT !.cleanups = stream'[t].cleanups]
          /\ stream[t].closed => \A s \in Sweeps : ~Started(s, t)]_vars

\* C8 witness: stream 1 was cleaned up twice (close and end) and stream 2,
\* still open with its timer running, wrote an event.
ClosedTwiceBesideOpenStream ==
    /\ stream[1].closed /\ stream[1].cleanups = 2
    /\ stream[2].connected /\ ~stream[2].closed /\ stream[2].timer
    /\ stream[2].writes = 1

\* C9: every cycle in flight settles (done or failed) unless the process is
\* terminated first, given that every runSmartctl it awaits settles.
EveryCycleSettles ==
    \A s \in Sweeps : InFlight(s) ~> (sweep[s].pc \in {"done", "failed"} \/ ~alive)

\* C9 witness: a cycle finished although one of its devices exhausted all
\* access modes and another was read.
CycleFinishedAfterDeviceFailure ==
    \E s \in Sweeps :
        /\ sweep[s].pc = "done"
        /\ sweep[s].noTelemetry # <<>>
        /\ sweep[s].summaries # <<>>

\* C10: a probe the reader awaits is left (for the next access mode, the next
\* device or the end of the cycle) whether or not the smartctl process exits.
HungProbeIsAbandoned ==
    \A s \in Sweeps : \A n \in 1..Len(argSets) :
        (alive /\ sweep[s].pc = "read" /\ sweep[s].k = n)
            ~> (~alive \/ ~(sweep[s].pc = "read" /\ sweep[s].k = n))

\* The entry of a device in a cycle in which its reader got its telemetry.
EntryOf(name) ==
    IF summarizeSmartRaises(Telemetry(name))
       THEN ErrorEntry(name)
       ELSE summarizeSmart(Telemetry(name), name)

\* C11: a cycle that got past its scan never fails; when it is done it has
\* gone through the whole enumeration, every named device has either an entry
\* or was skipped for want of telemetry, and every entry is the one its device
\* gets whatever happened to the other devices.
DeviceFailuresStayLocal ==
    \A s \in Sweeps :
        /\ sweep[s].pc = "failed" => sweep[s].devices = <<>> /\ sweep[s].summaries = <<>>
        /\ sweep[s].pc = "done" =>
              /\ sweep[s].i > Len(sweep[s].devices)
              /\ Len(sweep[s].summaries) + Len(sweep[s].noTelemetry)
                    = NamedCount(sweep[s].devices)
              /\ \A n \in 1..Len(sweep[s].summaries) :
                    sweep[s].summaries[n] = EntryOf(sweep[s].summaries[n].Device)

\* C11 witness: in one cycle the first device had no telemetry in any access
\* mode and the device after it has its record; in another, normalizing the
\* first device raised and the device after it was processed all the same.
LaterDevicesReadAfterFailures ==
    \E s \in Sweeps :
        /\ sweep[s].pc = "done"
        /\ sweep[s].devices = <<[name |-> "/dev/sdb"], [name |-> "/dev/sda"]>>
        /\ sweep[s].noTelemetry = <<"/dev/sdb">>
        /\ sweep[s].summaries = <<summarizeSmart(Telemetry("/dev/sda"), "/dev/sda")>>
        /\ \E r \in Sweeps :
              /\ sweep[r].pc = "done"
              /\ sweep[r].devices = <<[name |-> "/dev/sdc"], [name |-> "/dev/sdc"]>>
              /\ Len(sweep[r].summaries) = 2
              /\ IsErrorEntry(sweep[r].summaries[1])

\* The sendEvent calls of stream t that have written their event.
Emitted(t) == {s \in Sweeps : sweep[s].stream = t /\ sweep[s].pc \in {"done", "failed"}}

\* C12: a connected stream's timer interval is 10000 ms unless the parameter
\* is a numeral greater than zero, and then it is the whole number of
\* milliseconds in it; a sendEvent call was made when the stream connected,
\* the timer stays armed while the stream is open, and every sendEvent call
\* that has settled wrote exactly one event.
StreamIntervalAndCadence ==
    \A t \in Streams :
        /\ stream[t].connected =>
              /\ IF query.t = "numeral" /\ query.n > 0
                    THEN /\ 10 * stream[t].intervalMs <= query.n
                         /\ query.n < 10 * (stream[t].intervalMs + 1)
                    ELSE stream[t].intervalMs = 10000
              /\ \E s \in Sweeps : sweep[s].stream = t
              /\ ~stream[t].closed => stream[t].timer
        /\ ~stream[t].connected => ~stream[t].timer /\ \A s \in Sweeps : sweep[s].stream # t
        /\ stream[t].writes + stream[t].lateWrites = Cardinality(Emitted(t))

\* C14: in every published list each entry has a non-empty Device and no two
\* entries have the same Device.
DevicesNonEmptyAndUnique ==
    \A list \in {drivesCache, DrivesIn(response)}
                    \cup {sweep[s].summaries : s \in {r \in Sweeps : sweep[r].pc = "done"}} :
        \A m, n \in 1..Len(list) :
            /\ list[n].Device # NoName
            /\ list[m].Device = list[n].Device => m = n

\* The canonical field names of a drive record: the keys of the object
\* summarizeSmart returns in both programs (index.js adds TemperatureC, which
\* is not one of them).
CanonicalFields ==
    {"Device", "Type", "Model", "Serial", "HealthPercent", "WrittenGB", "PowerCycles",
     "PowerOnHours", "UnsafeShutdowns", "DataUnitsRead", "DataUnitsWritten",
     "HostReadCommands", "HostWriteCommands", "ControllerBusyTimeMinutes",
     "MediaDataIntegrityErrors", "ErrorLogEntries", "CompositeTemperatureK",
     "LiveTemperatureC", "CriticalWarning", "AvailableSparePercent",
     "AvailableSpareThreshold", "PercentageUsed", "WarningTempTimeMinutes",
     "CriticalTempTimeMinutes"}

\* The drive lists a client has been sent: the one of the last response and
\* the one of each stream's last data event.
PublishedLists ==
    {DrivesSent(response)} \cup {stream[t].data : t \in Streams}

\* C13: every entry of a published list, as the client receives it, is either
\* an error entry (Device, error = true, message and nothing else) or a
\* record with every canonical field and neither error nor message.
EntriesHaveOneShape ==
    \A list \in PublishedLists : \A n \in 1..Len(list) :
        LET fields == DOMAIN list[n] IN
        \/ fields = {"Device", "error", "message"} /\ list[n].error = TRUE
        \/ CanonicalFields \subseteq fields /\ fields \cap {"error", "message"} = {}

\* The counters of a record that summarizeSmart passes through toNumberSafe,
\* each with the value it is read from.
CounterSources(json) ==
    [PowerCycles |-> json.counters.power_cycle_count,
     PowerOnHours |-> json.counters.power_on_hours,
     UnsafeShutdowns |-> json.counters.unsafe_shutdowns,
     DataUnitsRead |-> json.log.data_units_read,
     DataUnitsWritten |-> json.log.data_units_written,
     HostReadCommands |-> json.log.host_reads,
     HostWriteCommands |-> json.log.host_writes,
     ControllerBusyTimeMinutes |-> json.log.controller_busy_time,
     MediaDataIntegrityErrors |-> json.counters.media_and_data_integrity_errors,
     ErrorLogEntries |-> json.counters.number_of_error_information_log_entries,
     AvailableSparePercent |-> json.log.available_spare,
     AvailableSpareThreshold |-> json.log.available_spare_threshold,
     PercentageUsed |-> json.log.percentage_used,
     WarningTempTimeMinutes |-> json.log.warning_composite_temperature_time,
     CriticalTempTimeMinutes |-> json.log.critical_composite_temperature_time]

\* C15: summarizeSmart never raises, and in the record it returns every
\* numeric counter is a number: the source value when that is numeric, else 0.
SummarizeIsTotal ==
    /\ ~record.raised
    /\ record.returned =>
          /\ \A f \in DOMAIN CounterSources(payload) :
                record.value[f] = IF Numeric(CounterSources(payload)[f])
                                     THEN CounterSources(payload)[f].n ELSE 0
          /\ record.value.CriticalWarning
                = IF Numeric(payload.log.critical_warning)
                     THEN Num(payload.log.critical_warning.n) ELSE Num(0)

\* C16: HealthPercent of a returned record is undefined or a number from 0
\* to 100.
HealthPercentInRange ==
    record.returned =>
        \/ record.value.HealthPercent = Absent
        \/ /\ record.value.HealthPercent.t = "number"
           /\ record.value.HealthPercent.n \in 0..100

\* The first row of the payload's table that is a wear attribute (0: none).
FirstWear(json) ==
    IF \E n \in 1..Len(json.attrs) : IsLifeAttr(json.attrs[n])
       THEN CHOOSE n \in 1..Len(json.attrs) :
               /\ IsLifeAttr(json.attrs[n])
               /\ \A m \in 1..(n - 1) : ~IsLifeAttr(json.attrs[m])
       ELSE 0

\* C17: for a non-NVMe payload HealthPercent is the normalized value of the
\* table's wear attribute (the first one in table order) when that value is
\* numeric, whatever smart_status says; otherwise 100 when the disk passed, 0
\* when it failed, undefined without the flag.
WearAttributeBeforeFlag ==
    (record.returned /\ payload.type # "nvme") =>
        LET w == FirstWear(payload) IN
        IF w # 0 /\ Numeric(payload.attrs[w].value)
           THEN record.value.HealthPercent = Num(payload.attrs[w].value.n)
           ELSE record.value.HealthPercent =
                   CASE payload.smart_status = "passed" -> Num(100)
                     [] payload.smart_status = "failed" -> Num(0)
                     [] OTHER -> Absent

\* C18: when temperature.current is numeric, LiveTemperatureC of the record
\* is that number, for every device type and whatever the health log or the
\* attribute table hold.
TopLevelTemperatureWins ==
    (record.returned /\ Numeric(payload.temperature)) =>
        record.value.LiveTemperatureC = Num(payload.temperature.n)

\* C19: for an NVMe payload WrittenGB is data_units_written * 512000 / 2^30
\* rounded to hundredths (1000000 units give 476.84), and 0 when
\* data_units_written is missing or not numeric.
NvmeWrittenGBRounded ==
    (record.returned /\ payload.type = "nvme") =>
        LET u == payload.log.data_units_written
            c == record.value.WrittenGB
        IN  IF Numeric(u) /\ u.n >= 0
               THEN /\ u.n <= 300000 =>
                          /\ 2 * (65536 * c - 3125 * u.n) <= 65536
                          /\ 2 * (3125 * u.n - 65536 * c) <= 65536
                    /\ u.n = 1000000 => c = 47684
               ELSE c = 0

\* C19 witness: 1000000 data units were normalized to 476.84 GB.
MillionUnitsNormalized ==
    /\ record.returned /\ payload.type = "nvme"
    /\ payload.log.data_units_written = Num(1000000)
    /\ record.value.WrittenGB = 47684

\* The first row that has id 241 or 242 and a name with "Written" (0: none).
FirstWritten(json) ==
    IF \E n \in 1..Len(json.attrs) :
          json.attrs[n].id \in {241, 242} /\ json.attrs[n].name \in WrittenNames
       THEN CHOOSE n \in 1..Len(json.attrs) :
               /\ json.attrs[n].id \in {241, 242} /\ json.attrs[n].name \in WrittenNames
               /\ \A m \in 1..(n - 1) :
                     ~(json.attrs[m].id \in {241, 242} /\ json.attrs[m].name \in WrittenNames)
       ELSE 0

\* C20: for every non-NVMe payload summarizeSmart was called with, the call
\* returned a record (no error results), and its WrittenGB is the raw value of
\* the first LBAs-written attribute * 512 / 2^30 rounded to hundredths, and 0
\* when the payload has no such attribute.
AtaWrittenGBRounded ==
    (record # NoRecord /\ payload.type # "nvme") =>
        /\ record.returned
        /\ LET w == FirstWritten(payload)
               c == record.value.WrittenGB
           IN  IF w # 0 /\ Numeric(payload.attrs[w].raw_value)
                  THEN LET l == payload.attrs[w].raw_value.n IN
                       /\ 2 * (524288 * c - 25 * l) <= 524288
                       /\ 2 * (25 * l - 524288 * c) <= 524288
                  ELSE c = 0

\* The reader takes the output of an invocation: runSmartctl resolved, the
\* output parsed, and the payload has a model_name, a serial_number or a
\* device.type.
Taken(call) ==
    /\ ~call.settled.rejected
    /\ call.settled.kind # "garbage"
    /\ \/ JSONparse(call.settled).model_name # ""
       \/ JSONparse(call.settled).serial_number # ""
       \/ JSONparse(call.settled).type # ""

\* What the aggregator makes of a payload the reader returned for the device.
EntryFor(json, name) ==
    IF summarizeSmartRaises(json) THEN ErrorEntry(name) ELSE summarizeSmart(json, name)

\* The device of the reader call that is followed.
ReadDevice == sweep[1].devices[1].name

\* C21: the n-th invocation of a reader call uses the n-th of plain, sat,
\* sat,12, scsi, so there are at most four and none is repeated; an invocation
\* whose output is taken is the last one (every earlier one was not taken,
\* none follows it), and the caller gets the payload of that invocation.
StrategiesInOrderFirstValidWins ==
    LET n == Len(invocations) IN
    /\ n <= 4
    /\ \A m \in 1..n : invocations[m].args = <<"plain", "sat", "sat,12", "scsi">>[m]
    /\ \A m \in 1..n :
          Taken(invocations[m]) =>
             /\ m = n
             /\ sweep[1].pc = "done"
             /\ sweep[1].summaries
                   = <<EntryFor(JSONparse(invocations[m].settled), ReadDevice)>>

\* C21 witness: plain was rejected, sat printed no JSON, sat,12 gave the
\* telemetry of sda, and the caller has the record made of it; scsi was not
\* invoked.
ThirdModeTaken ==
    /\ Len(invocations) = 3
    /\ invocations[1].settled = Rejected
    /\ invocations[2].settled = Stdout("garbage", EmptyObject)
    /\ invocations[3] = [args |-> "sat,12", settled |-> Stdout("json", Telemetry("/dev/sda"))]
    /\ sweep[1].pc = "done"
    /\ sweep[1].summaries = <<summarizeSmart(Telemetry("/dev/sda"), "/dev/sda")>>

\* C22: the reader call does not raise (the cycle does not fail and an error
\* entry comes only from normalizing a payload that was taken); after an
\* invocation that was not taken the next access mode is awaited as long as
\* there is one; the reader returned the empty payload exactly when four
\* invocations were made and none was taken.
ReaderSkipsFailuresNeverRaises ==
    LET n == Len(invocations)
        noneTaken == \A m \in 1..n : ~Taken(invocations[m])
    IN  /\ sweep[1].pc # "failed"
        /\ \A m \in 1..Len(sweep[1].summaries) :
              IsErrorEntry(sweep[1].summaries[m]) =>
                 /\ Taken(invocations[n])
                 /\ summarizeSmartRaises(JSONparse(invocations[n].settled))
        /\ (noneTaken /\ n < 4) => sweep[1].pc = "read" /\ sweep[1].k = n + 1
        /\ sweep[1].noTelemetry # <<>> <=> (n = 4 /\ noneTaken)

\* C22 witness: the four invocations failed in the four ways (rejected, empty
\* output, output that is not JSON, a payload without identity) and the
\* reader returned the empty payload.
AllFourModesFailed ==
    /\ Len(invocations) = 4
    /\ {invocations[m].settled : m \in 1..4}
          = {Rejected, Stdout("empty", EmptyObject), Stdout("garbage", EmptyObject),
             Stdout("json", StatusOnly)}
    /\ sweep[1].pc = "done"
    /\ sweep[1].noTelemetry = <<ReadDevice>>
    /\ sweep[1].summaries = <<>>

\* What the reader call returned: the payload of the invocation that was
\* taken, else the empty payload.
ReaderReturned ==
    IF invocations # <<>> /\ Taken(invocations[Len(invocations)])
       THEN JSONparse(invocations[Len(invocations)].settled)
       ELSE EmptyObject

\* C29: when the reader has returned and the loop is over, the device has an
\* error entry exactly when the returned payload has a model_name, a
\* serial_number, a smart_status or a device.type and summarizeSmart raises on
\* it; a returned payload that is not empty has one of the four; and for the
\* empty payload the device has no entry at all.
ErrorEntryIffNormalizerRaised ==
    sweep[1].pc = "done" =>
        LET j == ReaderReturned
            kept == \/ j.model_name # ""
                    \/ j.serial_number # ""
                    \/ j.smart_status # "absent"
                    \/ j.type # ""
        IN  /\ (\E m \in 1..Len(sweep[1].summaries) : IsErrorEntry(sweep[1].summaries[m]))
                   <=> (kept /\ summarizeSmartRaises(j))
            /\ j # EmptyObject => kept
            /\ j = EmptyObject => sweep[1].summaries = <<>>

\* C29 witness: the bridge sdc answered in its second access mode, its table
\* made summarizeSmart raise, and the device has the error entry.
BridgeGotErrorEntry ==
    /\ Len(invocations) = 2
    /\ invocations[1].settled = Rejected
    /\ invocations[2].settled = Stdout("json", Telemetry("/dev/sdc"))
    /\ sweep[1].pc = "done"
    /\ sweep[1].summaries = <<ErrorEntry("/dev/sdc")>>

\* C23: the step in which the scan of a cycle raises leaves the process
\* running, so that the timer goes on starting cycles; when the cycle is a
\* stream's sweep, the step writes one event to the stream and leaves its
\* closed flag and its timer as they were.
PollingGoesOnAfterFailure ==
    [][\A s \in Sweeps :
          (sweep[s].pc = "scan" /\ sweep'[s].pc = "failed") =>
              /\ alive'
              /\ sweep[s].caller = "stream" =>
                    LET t == sweep[s].stream IN
                    /\ stream'[t].writes + stream'[t].lateWrites
                          = stream[t].writes + stream[t].lateWrites + 1
                    /\ stream'[t].closed = stream[t].closed
                    /\ stream'[t].timer = stream[t].timer]_vars

\* C24: for an NVMe payload HealthPercent is max(0, 100 - percentage_used)
\* when percentage_used is numeric; when percentage_used is missing it is
\* 100 for a disk that passed, 0 for one that failed and undefined without
\* the flag.
NvmeHealthFromUsageOrFlag ==
    (record.returned /\ payload.type = "nvme") =>
        LET used == payload.log.percentage_used IN
        /\ Numeric(used) =>
              record.value.HealthPercent = Num(IF used.n < 100 THEN 100 - used.n ELSE 0)
        /\ used.t = "absent" =>
              record.value.HealthPercent =
                 CASE payload.smart_status = "passed" -> Num(100)
                   [] payload.smart_status = "failed" -> Num(0)
                   [] OTHER -> Absent

\* C25: in index.js, for an NVMe payload without temperature.current,
\* LiveTemperatureC is composite_temperature - 273 when that is numeric, else
\* temperature_sensors[0] - 273 when that is numeric, else undefined when the
\* table has no attribute 194 or 190 either.
NvmeTemperatureFromKelvin ==
    (/\ record.returned /\ server = "stream"
     /\ payload.type = "nvme" /\ payload.temperature = Absent) =>
        LET composite == payload.log.composite_temperature
            sensor == payload.log.temperature_sensors
            live == record.value.LiveTemperatureC
        IN  IF Numeric(composite) THEN live = Num(composite.n - 273)
            ELSE IF Numeric(sensor) THEN live = Num(sensor.n - 273)
            ELSE (\A n \in 1..Len(payload.attrs) : payload.attrs[n].id \notin {194, 190})
                     => live = Absent

\* The raw readings extractTemperatureC goes through: raw.value and raw.string
\* of the first row with id 194, then of the first row with id 190.
RawReadings(json) ==
    LET rows(id) == {n \in 1..Len(json.attrs) : json.attrs[n].id = id}
        first(id) == CHOOSE n \in rows(id) : \A m \in rows(id) : n <= m
        of(id) == IF rows(id) = {} THEN <<>>
                  ELSE <<json.attrs[first(id)].raw_value, json.attrs[first(id)].raw_string>>
    IN  of(194) \o of(190)

\* C26 as stated: for a non-NVMe payload of index.js without
\* temperature.current, when the table has rows 194 or 190 and their
\* normalized values are numbers, LiveTemperatureC is the normalized value
\* of one of them.
AtaTemperatureFromNormalizedValue ==
    (/\ record.returned /\ server = "stream"
     /\ payload.type # "nvme" /\ payload.temperature = Absent) =>
        LET rows == {n \in 1..Len(payload.attrs) : payload.attrs[n].id \in {194, 190}} IN
        (rows # {} /\ \A n \in rows : Numeric(payload.attrs[n].value)) =>
            \E n \in rows : record.value.LiveTemperatureC = Num(payload.attrs[n].value.n)

\* C26 (amended): for a non-NVMe payload of index.js whose
\* temperature.current is missing or does not convert to a finite number,
\* LiveTemperatureC is the first integer found in the raw readings of
\* attribute 194 and then 190, raw.value before raw.string, and undefined when
\* none of them has an integer (a run of digits too long for a finite number,
\* which parseInt reads as Infinity, counts as none).
AtaTemperatureFromRawReadings ==
    (/\ record.returned /\ server = "stream"
     /\ payload.type # "nvme" /\ ~IsFiniteNumber(payload.temperature)) =>
        LET readings == RawReadings(payload)
            good == {n \in 1..Len(readings) :
                        readings[n].t \in {"number", "numeral", "string", "overflow"}}
        IN  IF good = {} THEN record.value.LiveTemperatureC = Absent
            ELSE record.value.LiveTemperatureC
                    = Num(readings[CHOOSE n \in good : \A m \in good : n <= m].i)

\* C26 witness: row 190 stands before row 194, whose raw.value is a text
\* without digits; the 36 of 194's raw.string is reported, not the 30 of 190
\* and not the normalized 64.
RawStringOf194Reported ==
    /\ record.returned /\ server = "stream"
    /\ payload.type = "sat" /\ payload.temperature = Absent
    /\ Len(payload.attrs) = 2
    /\ payload.attrs[1].id = 190 /\ payload.attrs[2].id = 194
    /\ payload.attrs[2].value = Num(64)
    /\ record.value.LiveTemperatureC = Num(36)

\* C27: sweeps are numbered in the order they started.  Once the result of
\* cycle b has been assigned to drivesCache, no cycle that started before b
\* assigns its result.
SnapshotsPublishedInStartOrder ==
    [][\A a, b \in Sweeps :
          (/\ a < b
           /\ sweep[a].caller = "poll" /\ sweep[b].caller = "poll"
           /\ sweep[b].pc = "done" /\ sweep[a].pc # "done")
          => ~(sweep'[a].pc = "done" /\ drivesCache' = sweep'[a].summaries)]_vars

\* C28: nothing is written to the response of a stream after its cleanup ran.
NoWriteAfterCleanup == \A t \in Streams : stream[t].lateWrites = 0

\* Where a cycle stands: before and during the scan nothing has been probed;
\* while the reader of entry i is awaited, i is a named entry of the list the
\* scan reported, and the readers that have returned are those of the named
\* entries before i, each with its entry or its skip; when the cycle is done
\* every named entry has been through its reader.
CycleInOrder(sw) ==
    LET returned == Len(sw.summaries) + Len(sw.noTelemetry) IN
    /\ sw.pc \in {"idle", "scan", "failed"} =>
          sw.devices = <<>> /\ sw.i = 0 /\ sw.k = 0 /\ returned = 0
    /\ sw.pc \in {"disk", "read", "done"} => sw.devices \in attached \cup {<<>>}
    /\ sw.pc = "disk" =>
          /\ sw.caller = "stream" /\ sw.disk = "pending"
          /\ sw.i = 0 /\ sw.k = 0 /\ returned = 0
    /\ sw.pc = "read" => sw.disk # "pending"
    /\ sw.pc = "read" =>
          /\ sw.i \in 1..Len(sw.devices) /\ sw.devices[sw.i].name # NoName
          /\ sw.k \in 1..4
          /\ returned = NamedCount(SubSeq(sw.devices, 1, sw.i - 1))
          /\ \A n \in 1..Len(sw.summaries) :
                \E m \in 1..(sw.i - 1) : sw.devices[m].name = sw.summaries[n].Device
    /\ sw.pc = "done" =>
          /\ sw.i = Len(sw.devices) + 1
          /\ returned = NamedCount(sw.devices)

\* C30: every cycle stands in order (the scan has finished before a device is
\* probed, one invocation at most is awaited: the scan, or one access mode of
\* one device), and a step of a cycle that awaits a reader either goes on to
\* the next access mode of the same device or takes the reader's result and
\* moves to the next named entry after it, starting with the first mode.
ProbesRunOneAfterAnother ==
    /\ [](\A s \in Sweeps : CycleInOrder(sweep[s]))
    /\ [][\A s \in Sweeps :
             (sweep[s].pc = "read" /\ sweep'[s] # sweep[s]) =>
                LET old == sweep[s]
                    new == sweep'[s]
                IN  /\ new.pc \in {"read", "done"}
                    /\ new.devices = old.devices
                    /\ \/ /\ new.pc = "read" /\ new.i = old.i /\ new.k = old.k + 1
                          /\ new.summaries = old.summaries
                          /\ new.noTelemetry = old.noTelemetry
                       \/ /\ new.i > old.i
                          /\ \A n \in (old.i + 1)..(new.i - 1) :
                                n <= Len(old.devices) => old.devices[n].name = NoName
                          /\ new.pc = "read" => new.k = 1
                          /\ Len(new.summaries) + Len(new.noTelemetry)
                                = Len(old.summaries) + Len(old.noTelemetry) + 1]_vars

\* C30 witness: the scan reported sda, an entry without a name and sdc; the
\* reader of sda has returned and its record is held, and the cycle awaits
\* the second access mode of sdc.
SecondDeviceReadAfterFirst ==
    \E s \in Sweeps :
        /\ sweep[s].pc = "read"
        /\ sweep[s].devices = <<[name |-> "/dev/sda"], [name |-> NoName], [name |-> "/dev/sdc"]>>
        /\ sweep[s].i = 3 /\ sweep[s].k = 2
        /\ sweep[s].summaries = <<summarizeSmart(Telemetry("/dev/sda"), "/dev/sda")>>

=============================================================================
